---- MODULE Spec2Model ----
(***************************************************************************)
(* Model of the CLIP similarity service (similarity_service.py).           *)
(*                                                                         *)
(* The process runs the module-level initialisation (device selection,     *)
(* model and processor load, move to device, eval), then serves three      *)
(* handlers: generate_embeddings, calculate_similarity and health.         *)
(*                                                                         *)
(* Numbers: a raw feature vector is a tuple of integers.  The normalised   *)
(* vector  features / features.norm()  is kept exactly, as the numerators  *)
(* together with the square of the divisor: [num |-> f, den2 |-> n2]       *)
(* stands for the vector  f[i] / sqrt(n2).  A zero divisor gives 0/0, the  *)
(* IEEE not-a-number, in every component.                                  *)
(***************************************************************************)
EXTENDS Integers, Sequences, FiniteSets, TLC

(* ---- bounds ---------------------------------------------------------- *)
\* number of requests that may be in flight together
NumRequests == 2
\* longest list of paths in one /embeddings request
MaxLen == 2
\* longest vector in a /similarity request
MaxVecLen == 2

Requests == 1..NumRequests

VARIABLES
    pc,          \* position of the process in the module-level code
    env,         \* what torch reports about the machine
    device,      \* module global `device`
    model,       \* module global `model`
    processor,   \* module global `processor`
    exit_code,   \* status of sys.exit, -1 while the process is alive
    rpc,         \* rpc[r]: position of in-flight request r in its handler
    paths,       \* paths[r]: data.paths of request r
    idx,         \* idx[r]: number of paths the for loop of r has consumed
    embeddings,  \* embeddings[l]: the list `embeddings` with identity l
    errlog,      \* errlog[r]: paths printed by the except branch for r
    resp         \* resp[r]: the request of r and what its handler returned

vars == <<pc, env, device, model, processor, exit_code,
          rpc, paths, idx, embeddings, errlog, resp>>

startupVars == <<pc, env, device, model, processor, exit_code>>
requestVars == <<rpc, paths, idx, embeddings, errlog, resp>>

(* ---- values ---------------------------------------------------------- *)
Devices == {"mps", "cuda", "cpu"}

\* has_mps: torch.backends has the attribute `mps` (PyTorch >= 1.12)
Envs ==
    { e \in [has_mps : BOOLEAN, mps_available : BOOLEAN,
             mps_built : BOOLEAN, cuda_available : BOOLEAN] :
        ~e.has_mps => (~e.mps_available /\ ~e.mps_built) }

NoModel == [loaded |-> FALSE, on |-> "none", eval |-> FALSE]

None == [kind |-> "None"]
NoResp == [status |-> 0]

(* ---- device selection ------------------------------------------------ *)
\* get_optimal_device: the value returned, or the exception raised when
\* torch.backends.mps does not exist
get_optimal_device(e) ==
    IF ~e.has_mps THEN "AttributeError"
    ELSE IF e.mps_available /\ e.mps_built THEN "mps"
    ELSE IF e.cuda_available THEN "cuda"
    ELSE "cpu"

(* ---- module-level initialisation ------------------------------------- *)
\* the exception is swallowed and the module goes on to serve
StartupFailedSwallowed ==
    /\ pc' = "main"
    /\ exit_code' = exit_code

\* except Exception: ... sys.exit(1)
StartupFailed ==
    /\ pc' = "exited"
    /\ exit_code' = 1

\* device = get_optimal_device()
SelectDevice ==
    /\ pc = "select"
    /\ LET d == get_optimal_device(env) IN
         IF d \in Devices
         THEN /\ device' = d
              /\ pc' = "load_model"
              /\ UNCHANGED exit_code
         ELSE /\ StartupFailed
              /\ UNCHANGED device
    /\ UNCHANGED <<env, model, processor>>
    /\ UNCHANGED requestVars

\* model = CLIPModel.from_pretrained(...)
LoadModel ==
    /\ pc = "load_model"
    /\ \/ \E ev \in BOOLEAN :
            /\ model' = [loaded |-> TRUE, on |-> "cpu", eval |-> ev]
            /\ pc' = "load_processor"
            /\ UNCHANGED exit_code
       \/ /\ StartupFailed
          /\ UNCHANGED model
    /\ UNCHANGED <<env, device, processor>>
    /\ UNCHANGED requestVars

\* processor = CLIPProcessor.from_pretrained(...)
LoadProcessor ==
    /\ pc = "load_processor"
    /\ \/ /\ processor' = TRUE
          /\ pc' = "to_device"
          /\ UNCHANGED exit_code
       \/ /\ StartupFailed
          /\ UNCHANGED processor
    /\ UNCHANGED <<env, device, model>>
    /\ UNCHANGED requestVars

\* model = model.to(device)
ToDevice ==
    /\ pc = "to_device"
    /\ \/ /\ model' = [model EXCEPT !.on = device]
          /\ pc' = "eval"
          /\ UNCHANGED exit_code
       \/ /\ StartupFailed
          /\ UNCHANGED model
    /\ UNCHANGED <<env, device, processor>>
    /\ UNCHANGED requestVars

\* model.eval() and the banner that reads model.parameters()
EvalMode ==
    /\ pc = "eval"
    /\ \/ /\ model' = [model EXCEPT !.eval = TRUE]
          /\ pc' = "main"
          /\ UNCHANGED exit_code
       \/ /\ StartupFailed
          /\ UNCHANGED model
    /\ UNCHANGED <<env, device, processor>>
    /\ UNCHANGED requestVars

\* uvicorn.run(app, ...): the application starts to accept requests
Serve ==
    /\ pc = "main"
    /\ pc' = "serving"
    /\ UNCHANGED <<env, device, model, processor, exit_code>>
    /\ UNCHANGED requestVars

Startup ==
    \/ SelectDevice
    \/ LoadModel
    \/ LoadProcessor
    \/ ToDevice
    \/ EvalMode
    \/ Serve

(* ---- the files and the encoder (inputs of the pipeline) --------------- *)
\* the paths a request may name
Paths == {"valid.jpg", "zero.jpg", "missing.jpg", "corrupt.jpg"}
\* the paths used when handlers interleave
FewPaths == {"valid.jpg", "missing.jpg"}

\* Image.open(path) finds a file
Exists(p) == p # "missing.jpg"

\* the step at which processing the file at p raises ("none": no step does)
Faults(p) ==
    IF ~Exists(p) THEN {"open"}
    ELSE IF p = "corrupt.jpg"
         THEN {"convert", "preprocess", "forward", "normalize", "cpu"}
         ELSE {"none"}

\* model.get_image_features(**inputs)[0]: the raw feature vector
Features(p) == IF p = "zero.jpg" THEN <<0, 0>> ELSE <<1, 2>>

\* the exception a failing step raises
Raises(step) ==
    CASE step = "open" -> "FileNotFoundError"
      [] step = "convert" -> "OSError"
      [] step = "preprocess" -> "ValueError"
      [] OTHER -> "RuntimeError"

(* ---- POST /embeddings -------------------------------------------------- *)
RECURSIVE SumSq(_)
SumSq(v) == IF v = <<>> THEN 0 ELSE Head(v) * Head(v) + SumSq(Tail(v))

RECURSIVE SumAbs(_)
SumAbs(v) ==
    IF v = <<>> THEN 0
    ELSE (IF Head(v) < 0 THEN -Head(v) ELSE Head(v)) + SumAbs(Tail(v))

\* features.norm(p=1, ...), squared
NormL1Sq(features) == SumAbs(features) * SumAbs(features)

\* features.norm(dim=-1, keepdim=True), squared
NormSq(features) == SumSq(features)

\* features / features.norm(...): no guard against a zero norm
Normalize(features) ==
    [kind |-> "vec", num |-> features, den2 |-> NormSq(features)]

\* the body of the try block for one path
ProcessPath(p, fault) ==
    IF fault # "none"
    THEN [raised |-> Raises(fault), value |-> None]
    ELSE [raised |-> "none", value |-> Normalize(Features(p))]

\* except FileNotFoundError
CaughtOnlyMissing(exc) == exc = "FileNotFoundError"

\* except Exception
Caught(exc) ==
    exc \in {"FileNotFoundError", "OSError", "ValueError", "RuntimeError"}

\* one module-level list used by every invocation
SharedList(r) == 1

\* embeddings = []: a list local to the invocation
Local(r) == r

\* an except branch that only logs
AppendNothing(list) == list

\* embeddings.append(None) in the except branch
AppendNone(list) == Append(list, None)

\* the loop stops one path short
LoopDoneEarly(r) == idx[r] + 1 >= Len(paths[r])

\* the for loop has consumed every path
LoopDone(r) == idx[r] = Len(paths[r])

PathLists(P) == UNION { [1..n -> P] : n \in 0..MaxLen }

\* the handler is entered with data.paths = ps
generate_embeddings(r, P) ==
    /\ pc = "serving"
    /\ rpc[r] = "idle"
    /\ \E ps \in PathLists(P) :
         /\ paths' = [paths EXCEPT ![r] = ps]
         /\ resp' = [resp EXCEPT ![r] = NoResp]
    /\ rpc' = [rpc EXCEPT ![r] = "loop"]
    /\ idx' = [idx EXCEPT ![r] = 0]
    /\ embeddings' = [embeddings EXCEPT ![Local(r)] = <<>>]
    /\ errlog' = [errlog EXCEPT ![r] = <<>>]
    /\ UNCHANGED startupVars

\* one iteration of  for path in data.paths
ProcessItem(r) ==
    /\ rpc[r] = "loop"
    /\ ~LoopDone(r)
    /\ LET path == paths[r][idx[r] + 1] IN
       \E fault \in Faults(path) :
         LET out == ProcessPath(path, fault) IN
           IF out.raised = "none"
           THEN /\ embeddings' = [embeddings EXCEPT
                                    ![Local(r)] = Append(@, out.value)]
                /\ idx' = [idx EXCEPT ![r] = @ + 1]
                /\ UNCHANGED <<rpc, errlog, resp>>
           ELSE IF Caught(out.raised)
           THEN /\ errlog' = [errlog EXCEPT ![r] = Append(@, path)]
                /\ embeddings' = [embeddings EXCEPT
                                    ![Local(r)] = AppendNone(@)]
                /\ idx' = [idx EXCEPT ![r] = @ + 1]
                /\ UNCHANGED <<rpc, resp>>
           ELSE \* the exception leaves the handler
                /\ rpc' = [rpc EXCEPT ![r] = "done"]
                /\ resp' = [resp EXCEPT ![r] =
                              [op |-> "embeddings", status |-> 500]]
                /\ UNCHANGED <<idx, embeddings, errlog>>
    /\ UNCHANGED <<startupVars, paths>>

\* return {"embeddings": embeddings}
Return(r) ==
    /\ rpc[r] = "loop"
    /\ LoopDone(r)
    /\ rpc' = [rpc EXCEPT ![r] = "done"]
    /\ resp' = [resp EXCEPT ![r] =
                  [op |-> "embeddings", status |-> 200,
                   embeddings |-> embeddings[Local(r)]]]
    /\ UNCHANGED <<startupVars, paths, idx, embeddings, errlog>>

(* ---- POST /similarity -------------------------------------------------- *)
\* the numbers a request vector may hold
Vals == {-1, 0, 2}
Vectors == UNION { [1..n -> Vals] : n \in 0..MaxVecLen }

RECURSIVE DotFrom(_, _, _)
DotFrom(a, b, i) ==
    IF i > Len(a) THEN 0 ELSE a[i] * b[i] + DotFrom(a, b, i + 1)

\* np.dot(emb1, emb1)
np_dot_self(a, b) ==
    IF Len(a) # Len(b)
    THEN [raised |-> "ValueError", value |-> 0]
    ELSE [raised |-> "none", value |-> DotFrom(a, a, 1)]

\* np.dot of two 1-D arrays: the sum of products, or ValueError when the
\* shapes are not aligned
np_dot(a, b) ==
    IF Len(a) # Len(b)
    THEN [raised |-> "ValueError", value |-> 0]
    ELSE [raised |-> "none", value |-> DotFrom(a, b, 1)]

\* what the handler answers to emb1, emb2; an exception that leaves the
\* handler is answered with 500
similarity_response(emb1, emb2) ==
    LET d == np_dot(emb1, emb2) IN
      IF d.raised = "none"
      THEN [op |-> "similarity", status |-> 200, emb1 |-> emb1,
            emb2 |-> emb2, similarity |-> d.value]
      ELSE [op |-> "similarity", status |-> 500, emb1 |-> emb1,
            emb2 |-> emb2]

calculate_similarity(r) ==
    /\ pc = "serving"
    /\ rpc[r] = "idle"
    /\ \E emb1 \in Vectors, emb2 \in Vectors :
         resp' = [resp EXCEPT ![r] = similarity_response(emb1, emb2)]
    /\ rpc' = [rpc EXCEPT ![r] = "done"]
    /\ UNCHANGED <<startupVars, paths, idx, embeddings, errlog>>

(* ---- GET /health ------------------------------------------------------- *)
\* str.upper(), as the start-up banner prints the device
Upper(d) ==
    CASE d = "mps" -> "MPS"
      [] d = "cuda" -> "CUDA"
      [] d = "cpu" -> "CPU"
      [] OTHER -> d

\* str(device)
Str(d) == d

health_response ==
    [op |-> "health",
     status |-> 200,
     body_status |-> "healthy",
     device |-> Str(device),
     device_type |-> device,
     mps_available |-> IF env.has_mps THEN env.mps_available ELSE FALSE,
     cuda_available |-> env.cuda_available]

health(r) ==
    /\ pc = "serving"
    /\ rpc[r] = "idle"
    /\ resp' = [resp EXCEPT ![r] = health_response]
    /\ rpc' = [rpc EXCEPT ![r] = "done"]
    /\ UNCHANGED <<startupVars, paths, idx, embeddings, errlog>>

(* ---- the response has been sent ---------------------------------------- *)
Close(r) ==
    /\ rpc[r] = "done"
    /\ rpc' = [rpc EXCEPT ![r] = "idle"]
    /\ resp' = [resp EXCEPT ![r] = NoResp]
    /\ paths' = [paths EXCEPT ![r] = <<>>]
    /\ idx' = [idx EXCEPT ![r] = 0]
    /\ embeddings' = [embeddings EXCEPT ![Local(r)] = <<>>]
    /\ errlog' = [errlog EXCEPT ![r] = <<>>]
    /\ UNCHANGED startupVars

(* ---- specifications ---------------------------------------------------- *)
Init ==
    /\ pc = "select"
    /\ env \in Envs
    /\ device = "unset"
    /\ model = NoModel
    /\ processor = FALSE
    /\ exit_code = -1
    /\ rpc = [r \in Requests |-> "idle"]
    /\ paths = [r \in Requests |-> <<>>]
    /\ idx = [r \in Requests |-> 0]
    /\ embeddings = [r \in Requests |-> <<>>]
    /\ errlog = [r \in Requests |-> <<>>]
    /\ resp = [r \in Requests |-> NoResp]

\* the handlers are coroutines without an await: the event loop runs one
\* to its return before it dispatches the next request
EventLoopFree(r) == \A q \in Requests \ {r} : rpc[q] = "idle"

Next ==
    \/ Startup
    \/ \E r \in Requests :
         /\ EventLoopFree(r)
         /\ \/ generate_embeddings(r, Paths)
            \/ ProcessItem(r)
            \/ Return(r)
            \/ calculate_similarity(r)
            \/ health(r)
            \/ Close(r)

Spec == Init /\ [][Next]_vars

\* handlers of different requests interleaved at any point
NextInterleaved ==
    \/ Startup
    \/ \E r \in Requests :
         \/ generate_embeddings(r, FewPaths)
         \/ ProcessItem(r)
         \/ Return(r)
         \/ health(r)
         \/ Close(r)

SpecInterleaved == Init /\ [][NextInterleaved]_vars

(* ======================================================================== *)
(* Properties                                                               *)
(* ======================================================================== *)
EmbDone(r) ==
    /\ rpc[r] = "done"
    /\ resp[r].op = "embeddings"

SimDone(r) ==
    /\ rpc[r] = "done"
    /\ resp[r].op = "similarity"

HealthDone(r) ==
    /\ rpc[r] = "done"
    /\ resp[r].op = "health"

\* every step of the pipeline succeeds on the file at p
Succeeds(p) == "none" \in Faults(p)

\* the entry e is the result for path p: a vector made from the features
\* of p when p succeeds, the null marker when it fails
IsResultFor(e, p) ==
    IF Succeeds(p)
    THEN e.kind = "vec" /\ e.num = Features(p)
    ELSE e = None

\* C1: the list returned by generate_embeddings has exactly one entry per
\* path, entry i being the result for paths[i] (a vector if item i
\* succeeded, None if it failed): nothing dropped, duplicated or reordered.
C1_PositionalAlignment ==
    \A r \in Requests :
      (EmbDone(r) /\ resp[r].status = 200) =>
        /\ Len(resp[r].embeddings) = Len(paths[r])
        /\ \A i \in 1..Len(paths[r]) :
             IsResultFor(resp[r].embeddings[i], paths[r][i])

C1_Witness ==
    \E r \in Requests :
      /\ EmbDone(r)
      /\ paths[r] = <<"missing.jpg", "valid.jpg">>
      /\ resp[r].embeddings[1] = None
      /\ resp[r].embeddings[2].kind = "vec"

\* C2: a failure of any step for one item never aborts the batch: the item
\* becomes None, the loop goes on, every later item is processed and the
\* request ends with a 200 response.
C2_FailureIsolated ==
    \A r \in Requests :
      \A j \in 1..Len(paths[r]) :
        ~Succeeds(paths[r][j]) =>
          /\ (rpc[r] = "loop" /\ idx[r] >= j) =>
               embeddings[Local(r)][j] = None
          /\ rpc[r] = "done" =>
               /\ resp[r].status = 200
               /\ Len(resp[r].embeddings) = Len(paths[r])
               /\ resp[r].embeddings[j] = None
               /\ \A k \in (j + 1)..Len(paths[r]) :
                    Succeeds(paths[r][k]) =>
                      resp[r].embeddings[k].kind = "vec"

C2_Witness ==
    \E r \in Requests :
      /\ EmbDone(r)
      /\ resp[r].status = 200
      /\ paths[r] = <<"corrupt.jpg", "valid.jpg">>
      /\ errlog[r] = <<"corrupt.jpg">>
      /\ resp[r].embeddings[2].kind = "vec"

\* C3: a similarity request whose vectors differ in length is answered
\* with a client error (4xx), not with a value and not with a server error.
C3_MismatchIsClientError ==
    \A r \in Requests :
      (SimDone(r) /\ Len(resp[r].emb1) # Len(resp[r].emb2)) =>
        resp[r].status \in 400..499

\* C4: a failed startup step ends the process with a nonzero status and the
\* process never serves; a request is only handled while the model is
\* loaded, on the selected device and in eval mode.
C4_NoServingWithoutModel ==
    /\ (exit_code # -1) <=> (pc = "exited")
    /\ pc = "exited" => exit_code # 0
    /\ pc # "serving" =>
         \A r \in Requests : rpc[r] = "idle" /\ resp[r] = NoResp
    /\ (pc = "serving" \/ \E r \in Requests : rpc[r] # "idle") =>
         /\ device \in Devices
         /\ model.loaded
         /\ model.on = device
         /\ model.eval
         /\ processor

C4_Witness ==
    /\ pc = "exited"
    /\ exit_code = 1
    /\ model.loaded
    /\ \A r \in Requests : rpc[r] = "idle"

\* the device the stated policy selects
Policy(e) ==
    IF e.mps_available /\ e.mps_built THEN "mps"
    ELSE IF e.cuda_available THEN "cuda"
    ELSE "cpu"

\* C5: get_optimal_device returns, for every combination of flags, mps
\* when MPS is available and built, else cuda when CUDA is available, else
\* cpu; it has no error path.
C5_DeviceTotal ==
    pc # "select" => device = Policy(env)

\* C6: the device is selected once, at start, and no handler changes it;
\* while the service accepts requests health can answer, and it answers
\* healthy with device and device_type equal to the selected device, one of
\* mps, cuda, cpu.
C6_DeviceFixed ==
    /\ [](/\ pc = "serving" => device \in Devices
          /\ pc \notin {"select", "exited"} => device = Policy(env)
          /\ \A r \in Requests :
               /\ (pc = "serving" /\ rpc[r] = "idle") => ENABLED health(r)
               /\ HealthDone(r) =>
                    /\ resp[r].status = 200
                    /\ resp[r].body_status = "healthy"
                    /\ resp[r].device = device
                    /\ resp[r].device_type = device)
    /\ [][device' # device => pc = "select"]_vars

C6_Witness ==
    \E r \in Requests :
      /\ HealthDone(r)
      /\ resp[r].device = "cuda"
      /\ env.mps_available

\* the Euclidean norm of the vector e is 1
IsUnitNorm(e) ==
    /\ e.den2 > 0
    /\ SumSq(e.num) = e.den2

AllZero(f) == \A i \in 1..Len(f) : f[i] = 0

\* C7 as stated: every non-null entry returned by generate_embeddings is a
\* unit-norm vector, also for an all-zero raw feature vector.
C7_AllUnitNorm ==
    \A r \in Requests :
      (EmbDone(r) /\ resp[r].status = 200) =>
        \A i \in 1..Len(resp[r].embeddings) :
          resp[r].embeddings[i] # None =>
            IsUnitNorm(resp[r].embeddings[i])

\* C7 amended: every non-null entry whose raw feature vector is not all
\* zeros is a unit-norm vector; an all-zero feature vector gives a non-null
\* entry of 0/0 components, which is not unit-norm.
C7_UnitNormUnlessZero ==
    \A r \in Requests :
      (EmbDone(r) /\ resp[r].status = 200) =>
        \A i \in 1..Len(resp[r].embeddings) :
          LET e == resp[r].embeddings[i] IN
            e # None =>
              IF AllZero(Features(paths[r][i]))
              THEN e.den2 = 0 /\ ~IsUnitNorm(e)
              ELSE IsUnitNorm(e)

C7_Witness ==
    \E r \in Requests :
      /\ EmbDone(r)
      /\ paths[r] = <<"valid.jpg", "zero.jpg">>
      /\ IsUnitNorm(resp[r].embeddings[1])
      /\ resp[r].embeddings[2].kind = "vec"

\* the sum of the products of the components at the positions in S
RECURSIVE SumProducts(_, _, _)
SumProducts(a, b, S) ==
    IF S = {} THEN 0
    ELSE LET i == CHOOSE x \in S : TRUE IN
           a[i] * b[i] + SumProducts(a, b, S \ {i})

\* C8: for vectors of equal length the similarity returned for (a, b) is
\* the plain dot product of a and b and equals the one returned for (b, a).
C8_Symmetric ==
    \A r \in Requests :
      (SimDone(r) /\ Len(resp[r].emb1) = Len(resp[r].emb2)) =>
        LET a == resp[r].emb1
            b == resp[r].emb2
            swapped == similarity_response(b, a)
        IN /\ resp[r].status = 200
           /\ swapped.status = 200
           /\ resp[r].similarity = swapped.similarity
           /\ resp[r].similarity = SumProducts(a, b, DOMAIN a)

C8_Witness ==
    \E r \in Requests :
      /\ SimDone(r)
      /\ resp[r].emb1 = <<-1, 2>>
      /\ resp[r].emb2 = <<2, 2>>
      /\ resp[r].similarity = 2

\* C9: the items of a request are processed one at a time in input order,
\* and the response is emitted once, after every item has been processed.
C9_SequentialSingleReturn ==
    /\ [](\A r \in Requests :
            /\ rpc[r] = "loop" =>
                 /\ resp[r] = NoResp
                 /\ idx[r] <= Len(paths[r])
                 /\ Len(embeddings[Local(r)]) = idx[r]
                 /\ \A i \in 1..idx[r] :
                      IsResultFor(embeddings[Local(r)][i], paths[r][i])
            /\ EmbDone(r) =>
                 /\ idx[r] = Len(paths[r])
                 /\ Len(resp[r].embeddings) = Len(paths[r]))
    /\ [][\A r \in Requests :
            /\ idx'[r] # idx[r] => (idx'[r] = idx[r] + 1 \/ idx'[r] = 0)
            /\ resp[r] # NoResp => resp'[r] \in {resp[r], NoResp}
            /\ resp'[r] # resp[r] =>
                 (resp[r] = NoResp /\ rpc'[r] = "done") \/ resp'[r] = NoResp
         ]_vars

C9_Witness ==
    \E r \in Requests :
      /\ rpc[r] = "loop"
      /\ Len(paths[r]) = 2
      /\ idx[r] = 1
      /\ resp[r] = NoResp

\* the list of results for the paths ps
ResultsFor(ps) ==
    [i \in 1..Len(ps) |->
       IF Succeeds(ps[i]) THEN Normalize(Features(ps[i])) ELSE None]

\* C10: under any interleaving of the handlers of in-flight requests, no
\* handler changes device, model or processor, and a request's list (and
\* its response) holds only the entries of its own paths.
C10_RequestsIsolated ==
    /\ [](\A r \in Requests :
            /\ rpc[r] = "loop" =>
                 embeddings[Local(r)] = SubSeq(ResultsFor(paths[r]), 1, idx[r])
            /\ EmbDone(r) =>
                 /\ resp[r].status = 200
                 /\ resp[r].embeddings = ResultsFor(paths[r]))
    /\ [][pc = "serving" =>
            /\ device' = device
            /\ model' = model
            /\ processor' = processor]_vars

C10_Witness ==
    /\ EmbDone(1)
    /\ paths[1] = <<"valid.jpg", "missing.jpg">>
    /\ rpc[2] = "loop"
    /\ paths[2] = <<"missing.jpg", "valid.jpg">>
    /\ idx[2] = 1
====
